---- MODULE Spec2Model ----
(***************************************************************************)
(* tiny-editor (rust): the terminal-mode lifecycle of Editor, the event    *)
(* loops of Editor::run and Reader::read_key, the screen writes of Output  *)
(* and the entry point main.                                               *)
(*                                                                         *)
(* The terminal mode is the one crossterm keeps for the whole process:     *)
(* Editor is a unit struct (editor.rs:5) and holds no mode of its own.     *)
(* One behaviour follows one entry into the code, chosen in Init:          *)
(*   "editor"  a process (a test binary) that builds up to two Editors,    *)
(*             each on its own thread, and may run and drop them;          *)
(*   "reader"  successive calls of Reader::read_key;                       *)
(*   "output"  calls of Output::refresh_screen;                            *)
(*   "main"    the program entry point.                                    *)
(***************************************************************************)
EXTENDS Naturals, Sequences, FiniteSets

\* ---------------------------------------------------------------- bounds
\* Terminal events (editor, reader) or stdin bytes (main) in one behaviour.
MaxEvents == 2
\* Polls that end on the 500 ms timeout with nothing to read, per behaviour.
MaxTimeouts == 2
\* Calls of Reader::read_key / Output::refresh_screen in one behaviour.
MaxCalls == 2

\* The Editor instances a process may build (two: enough for interference).
Editors == {1, 2}

Entries == {"editor", "reader", "output", "main"}

\* ---------------------------------------------------------------- events
\* crossterm::event::Event as far as the code looks at it: a Key event with
\* its code and modifiers, or an event that is not a key (resize, mouse...).
KeyCodes == {"q", "a"}
KeyModifiers == {"NONE", "CONTROL"}
KeyEvents == [type : {"Key"}, code : KeyCodes, modifiers : KeyModifiers]
OtherEvents == {[type |-> "Resize", code |-> "-", modifiers |-> "NONE"]}
Events == KeyEvents \cup OtherEvents
NoEvent == [type |-> "None", code |-> "-", modifiers |-> "NONE"]

\* stdin bytes read by main, as far as main tells them apart.
Bytes == {"q", "a"}

SeqsUpTo(S, n) == UNION {[1..k -> S] : k \in 0..n}

VARIABLES
    entry,          \* which entry into the code this behaviour follows
    rawSupported,   \* the environment: does the terminal support raw mode
    termMode,       \* the process-wide terminal mode: "Normal" or "Raw"
    pending,        \* terminal events the user has yet to produce
    avail,          \* terminal events waiting in the terminal's queue
    timeouts,       \* polls that have timed out so far
    \* Editor (one thread per instance)
    pc,             \* where each Editor is
    result,         \* what run() gave its caller: "None", "Ok", "Err", "Panic"
    cur,            \* the key event the loop is matching
    polls,          \* event::poll calls made by each Editor's run
    reads,          \* event::read calls made by each Editor's run
    failed,         \* an event::poll / event::read of this run gave Err
    disableCalls,   \* calls of Editor::disable_raw_mode on each instance
    statusmsg,      \* Config.statusmsg, the status message shown to the user
    rawOn,          \* Normal -> Raw transitions of the terminal mode
    rawOff,         \* Raw -> Normal transitions of the terminal mode
    \* Reader
    rkPc, rkResult, rkPolls, rkReads, rkFailed, rkCalls, rkKeys,
    \* Output
    outPc, outResult, outWrites, outCalls,
    \* main
    mPc, args, stdin, exitCode, printed

envVars == <<entry, rawSupported, termMode, pending, avail, timeouts, rawOn, rawOff>>
edVars == <<pc, result, cur, polls, reads, failed, disableCalls, statusmsg>>
rkVars == <<rkPc, rkResult, rkPolls, rkReads, rkFailed, rkCalls, rkKeys>>
outVars == <<outPc, outResult, outWrites, outCalls>>
mainVars == <<mPc, args, stdin, exitCode, printed>>
vars == <<envVars, edVars, rkVars, outVars, mainVars>>

\* ------------------------------------------------- crossterm::terminal
\* terminal::enable_raw_mode(): Ok and a no-op when raw mode is already on;
\* otherwise it switches the terminal to raw mode, or gives Err when the
\* terminal cannot do it.
terminal_enable_raw_mode(mode, supported) ==
    IF mode = "Raw" THEN [res |-> "Ok", mode |-> "Raw"]
    ELSE IF supported THEN [res |-> "Ok", mode |-> "Raw"]
    ELSE [res |-> "Err", mode |-> mode]

\* A disable that insists on a prior enable.
terminal_disable_raw_mode_strict(mode, supported) ==
    IF mode = "Raw" /\ supported THEN [res |-> "Ok", mode |-> "Normal"]
    ELSE [res |-> "Err", mode |-> mode]

\* terminal::disable_raw_mode(): restores the mode saved by enable; Ok and
\* a no-op when no raw mode is on; Err when the terminal refuses the restore.
terminal_disable_raw_mode(mode, supported) ==
    IF mode = "Raw"
    THEN IF supported THEN [res |-> "Ok", mode |-> "Normal"]
         ELSE [res |-> "Err", mode |-> mode]
    ELSE [res |-> "Ok", mode |-> mode]

\* A quit pattern that forgets the modifiers.
IsQuitKey_any_modifiers(ev) == ev.type = "Key" /\ ev.code = "q"

\* The quit pattern of the match in Editor::run:
\* KeyEvent { code: Char('q'), modifiers: NONE, .. }.
IsQuitKey(ev) == ev.type = "Key" /\ ev.code = "q" /\ ev.modifiers = "NONE"

Count(a, b) == IF a = b THEN 0 ELSE 1

\* ------------------------------------------------------------------ Init
Init ==
    /\ entry \in Entries
    /\ rawSupported \in BOOLEAN
    /\ termMode = "Normal"
    /\ pending \in (IF entry \in {"editor", "reader"}
                    THEN SeqsUpTo(Events, MaxEvents) ELSE {<<>>})
    /\ avail = <<>>
    /\ timeouts = 0
    /\ rawOn = 0
    /\ rawOff = 0
    /\ pc = [e \in Editors |-> "unborn"]
    /\ result = [e \in Editors |-> "None"]
    /\ cur = [e \in Editors |-> NoEvent]
    /\ polls = [e \in Editors |-> 0]
    /\ reads = [e \in Editors |-> 0]
    /\ failed = [e \in Editors |-> FALSE]
    /\ disableCalls = [e \in Editors |-> 0]
    /\ statusmsg = ""
    /\ rkPc = "idle"
    /\ rkResult = "None"
    /\ rkPolls = 0
    /\ rkReads = 0
    /\ rkFailed = FALSE
    /\ rkCalls = 0
    /\ rkKeys = <<>>
    /\ outPc = "idle"
    /\ outResult = "None"
    /\ outWrites = 0
    /\ outCalls = 0
    /\ mPc = "start"
    /\ args \in (IF entry = "main" THEN {1, 2} ELSE {1})
    /\ stdin \in (IF entry = "main" THEN SeqsUpTo(Bytes, MaxEvents) ELSE {<<>>})
    /\ exitCode = 0
    /\ printed = 0

\* ----------------------------------------------------------- environment
\* The user produces the next terminal event.
Arrive ==
    /\ entry \in {"editor", "reader"}
    /\ pending # <<>>
    /\ avail' = Append(avail, Head(pending))
    /\ pending' = Tail(pending)
    /\ UNCHANGED <<entry, rawSupported, termMode, timeouts, rawOn, rawOff>>
    /\ UNCHANGED <<edVars, rkVars, outVars, mainVars>>

\* ---------------------------------------------------------------- Editor
\* Editor::new
Editor_new(e) ==
    /\ entry = "editor"
    /\ pc[e] = "unborn"
    /\ pc' = [pc EXCEPT ![e] = "idle"]
    /\ UNCHANGED <<envVars, result, cur, polls, reads, failed, disableCalls>>
    /\ UNCHANGED <<statusmsg, rkVars, outVars, mainVars>>

\* An enable whose result is thrown away: the loop starts whatever it was.
Editor_run_enable_unchecked(e) ==
    /\ entry = "editor"
    /\ pc[e] = "idle"
    /\ LET r == terminal_enable_raw_mode(termMode, rawSupported) IN
        /\ termMode' = r.mode
        /\ rawOn' = rawOn + Count(termMode, r.mode)
    /\ pc' = [pc EXCEPT ![e] = "poll"]
    /\ UNCHANGED <<entry, rawSupported, pending, avail, timeouts, rawOff>>
    /\ UNCHANGED <<result, cur, polls, reads, failed, disableCalls>>
    /\ UNCHANGED <<statusmsg, rkVars, outVars, mainVars>>

\* Editor::run, line 27: self.enable_raw_mode(), whose expect panics on Err;
\* the panic unwinds through run.
Editor_run_enable(e) ==
    /\ entry = "editor"
    /\ pc[e] = "idle"
    /\ LET r == terminal_enable_raw_mode(termMode, rawSupported) IN
        /\ termMode' = r.mode
        /\ rawOn' = rawOn + Count(termMode, r.mode)
        /\ IF r.res = "Ok"
           THEN /\ pc' = [pc EXCEPT ![e] = "poll"]
                /\ result' = result
           ELSE /\ pc' = [pc EXCEPT ![e] = "unwinding"]
                /\ result' = [result EXCEPT ![e] = "Panic"]
    /\ UNCHANGED <<entry, rawSupported, pending, avail, timeouts, rawOff>>
    /\ UNCHANGED <<cur, polls, reads, failed, disableCalls>>
    /\ UNCHANGED <<statusmsg, rkVars, outVars, mainVars>>

\* A poll whose I/O error is swallowed and the poll retried.
Editor_run_poll_retry(e) ==
    /\ entry = "editor"
    /\ pc[e] = "poll"
    /\ polls' = [polls EXCEPT ![e] = @ + 1]
    /\ \/ /\ avail # <<>>
          /\ pc' = [pc EXCEPT ![e] = "read"]
          /\ UNCHANGED <<timeouts, failed>>
       \/ /\ avail = <<>>
          /\ timeouts < MaxTimeouts
          /\ timeouts' = timeouts + 1
          /\ UNCHANGED <<pc, failed>>
       \/ /\ ~failed[e]
          /\ failed' = [failed EXCEPT ![e] = TRUE]
          /\ UNCHANGED <<pc, timeouts>>
    /\ UNCHANGED <<entry, rawSupported, termMode, pending, avail, rawOn, rawOff>>
    /\ UNCHANGED <<result, cur, reads, disableCalls>>
    /\ UNCHANGED <<statusmsg, rkVars, outVars, mainVars>>

\* A poll whose bool is thrown away: the read follows a timeout too.
Editor_run_poll_ignore_bool(e) ==
    /\ entry = "editor"
    /\ pc[e] = "poll"
    /\ polls' = [polls EXCEPT ![e] = @ + 1]
    /\ \/ /\ avail # <<>>
          /\ pc' = [pc EXCEPT ![e] = "read"]
          /\ UNCHANGED <<timeouts, failed, result>>
       \/ /\ avail = <<>>
          /\ timeouts < MaxTimeouts
          /\ timeouts' = timeouts + 1
          /\ pc' = [pc EXCEPT ![e] = "read"]
          /\ UNCHANGED <<failed, result>>
       \/ /\ failed' = [failed EXCEPT ![e] = TRUE]
          /\ result' = [result EXCEPT ![e] = "Err"]
          /\ pc' = [pc EXCEPT ![e] = "returned"]
          /\ UNCHANGED timeouts
    /\ UNCHANGED <<entry, rawSupported, termMode, pending, avail, rawOn, rawOff>>
    /\ UNCHANGED <<cur, reads, disableCalls>>
    /\ UNCHANGED <<statusmsg, rkVars, outVars, mainVars>>

\* Editor::run, line 30: event::poll(500 ms)?: true when an event waits,
\* false on the timeout, and an I/O error returns from run at once.
Editor_run_poll(e) ==
    /\ entry = "editor"
    /\ pc[e] = "poll"
    /\ polls' = [polls EXCEPT ![e] = @ + 1]
    /\ \/ /\ avail # <<>>
          /\ pc' = [pc EXCEPT ![e] = "read"]
          /\ UNCHANGED <<timeouts, failed, result>>
       \/ /\ avail = <<>>
          /\ timeouts < MaxTimeouts
          /\ timeouts' = timeouts + 1
          /\ UNCHANGED <<pc, failed, result>>
       \/ /\ failed' = [failed EXCEPT ![e] = TRUE]
          /\ result' = [result EXCEPT ![e] = "Err"]
          /\ pc' = [pc EXCEPT ![e] = "returned"]
          /\ UNCHANGED timeouts
    /\ UNCHANGED <<entry, rawSupported, termMode, pending, avail, rawOn, rawOff>>
    /\ UNCHANGED <<cur, reads, disableCalls>>
    /\ UNCHANGED <<statusmsg, rkVars, outVars, mainVars>>

\* Editor::run, line 31: if let Event::Key(event) = event::read()?: takes the
\* first waiting event (read blocks while there is none); a key goes to the
\* match, another event ends the iteration, an I/O error returns from run.
Editor_run_read(e) ==
    /\ entry = "editor"
    /\ pc[e] = "read"
    /\ reads' = [reads EXCEPT ![e] = @ + 1]
    /\ \/ /\ avail # <<>>
          /\ avail' = Tail(avail)
          /\ IF Head(avail).type = "Key"
             THEN /\ cur' = [cur EXCEPT ![e] = Head(avail)]
                  /\ pc' = [pc EXCEPT ![e] = "match"]
             ELSE /\ cur' = cur
                  /\ pc' = [pc EXCEPT ![e] = "poll"]
          /\ UNCHANGED <<failed, result>>
       \/ /\ failed' = [failed EXCEPT ![e] = TRUE]
          /\ result' = [result EXCEPT ![e] = "Err"]
          /\ pc' = [pc EXCEPT ![e] = "returned"]
          /\ UNCHANGED <<avail, cur>>
    /\ UNCHANGED <<entry, rawSupported, termMode, pending, timeouts, rawOn, rawOff>>
    /\ UNCHANGED <<polls, disableCalls>>
    /\ UNCHANGED <<statusmsg, rkVars, outVars, mainVars>>

\* A match that asks for a second quit key before it leaves the loop.
Editor_run_match_confirm(e) ==
    /\ entry = "editor"
    /\ pc[e] = "match"
    /\ pc' = [pc EXCEPT ![e] = IF IsQuitKey(cur[e]) /\ reads[e] > 1
                                THEN "disable" ELSE "poll"]
    /\ UNCHANGED <<envVars, result, cur, polls, reads, failed, disableCalls>>
    /\ UNCHANGED <<statusmsg, rkVars, outVars, mainVars>>

\* A match whose quit arm does not break.
Editor_run_match_no_break(e) ==
    /\ entry = "editor"
    /\ pc[e] = "match"
    /\ pc' = [pc EXCEPT ![e] = "poll"]
    /\ UNCHANGED <<envVars, result, cur, polls, reads, failed, disableCalls>>
    /\ UNCHANGED <<statusmsg, rkVars, outVars, mainVars>>

\* Editor::run, lines 32-41: the quit key breaks out of the loop, any other
\* key does nothing and the loop goes on to the next poll.
Editor_run_match(e) ==
    /\ entry = "editor"
    /\ pc[e] = "match"
    /\ pc' = [pc EXCEPT ![e] = IF IsQuitKey(cur[e]) THEN "disable" ELSE "poll"]
    /\ UNCHANGED <<envVars, result, cur, polls, reads, failed, disableCalls>>
    /\ UNCHANGED <<statusmsg, rkVars, outVars, mainVars>>

\* A quit path that leaves the release to Drop alone.
Editor_run_disable_skip(e) ==
    /\ entry = "editor"
    /\ pc[e] = "disable"
    /\ pc' = [pc EXCEPT ![e] = "returned"]
    /\ result' = [result EXCEPT ![e] = "Ok"]
    /\ UNCHANGED <<envVars, cur, polls, reads, failed, disableCalls>>
    /\ UNCHANGED <<statusmsg, rkVars, outVars, mainVars>>

\* Editor::run, lines 46-47: self.disable_raw_mode() (its expect panics on
\* Err), then Ok(()).
Editor_run_disable(e) ==
    /\ entry = "editor"
    /\ pc[e] = "disable"
    /\ disableCalls' = [disableCalls EXCEPT ![e] = @ + 1]
    /\ LET r == terminal_disable_raw_mode(termMode, rawSupported) IN
        /\ termMode' = r.mode
        /\ rawOff' = rawOff + Count(termMode, r.mode)
        /\ IF r.res = "Ok"
           THEN /\ pc' = [pc EXCEPT ![e] = "returned"]
                /\ result' = [result EXCEPT ![e] = "Ok"]
           ELSE /\ pc' = [pc EXCEPT ![e] = "unwinding"]
                /\ result' = [result EXCEPT ![e] = "Panic"]
    /\ UNCHANGED <<entry, rawSupported, pending, avail, timeouts, rawOn>>
    /\ UNCHANGED <<cur, polls, reads, failed>>
    /\ UNCHANGED <<statusmsg, rkVars, outVars, mainVars>>

\* A teardown that forgets the terminal.
Editor_drop_forget(e) ==
    /\ entry = "editor"
    /\ pc[e] \in {"idle", "returned", "unwinding"}
    /\ pc' = [pc EXCEPT ![e] = "dropped"]
    /\ UNCHANGED <<envVars, result, cur, polls, reads, failed, disableCalls>>
    /\ UNCHANGED <<statusmsg, rkVars, outVars, mainVars>>

\* impl Drop for Editor: the owner lets go of an Editor it never ran, or
\* whose run has returned, or a panic unwinds through the owner's frame;
\* drop calls self.disable_raw_mode(), whose expect panics on Err (a panic
\* during unwinding aborts the process).
Editor_drop(e) ==
    /\ entry = "editor"
    /\ pc[e] \in {"idle", "returned", "unwinding"}
    /\ disableCalls' = [disableCalls EXCEPT ![e] = @ + 1]
    /\ LET r == terminal_disable_raw_mode(termMode, rawSupported) IN
        /\ termMode' = r.mode
        /\ rawOff' = rawOff + Count(termMode, r.mode)
        /\ IF r.res = "Ok"
           THEN /\ pc' = [pc EXCEPT ![e] = "dropped"]
                /\ result' = result
           ELSE /\ pc' = [pc EXCEPT ![e] = IF pc[e] = "unwinding"
                                           THEN "aborted" ELSE "dropped"]
                /\ result' = [result EXCEPT ![e] = "Panic"]
    /\ UNCHANGED <<entry, rawSupported, pending, avail, timeouts, rawOn>>
    /\ UNCHANGED <<cur, polls, reads, failed>>
    /\ UNCHANGED <<statusmsg, rkVars, outVars, mainVars>>

EditorNext ==
    \E e \in Editors :
        \/ Editor_new(e)
        \/ Editor_run_enable(e)
        \/ Editor_run_poll(e)
        \/ Editor_run_read(e)
        \/ Editor_run_match(e)
        \/ Editor_run_disable(e)
        \/ Editor_drop(e)

\* ---------------------------------------------------------------- Reader
\* A caller calls Reader::read_key (again).
Reader_read_key_call ==
    /\ entry = "reader"
    /\ rkPc \in {"idle", "returned"}
    /\ rkCalls < MaxCalls
    /\ rkCalls' = rkCalls + 1
    /\ rkPc' = "poll"
    /\ rkResult' = "None"
    /\ rkPolls' = 0
    /\ rkReads' = 0
    /\ rkFailed' = FALSE
    /\ UNCHANGED rkKeys
    /\ UNCHANGED <<envVars, edVars, outVars, mainVars>>

\* Reader::read_key, line 10: event::poll(500 ms)?: on true go on to read,
\* on the timeout poll again, on an I/O error return it.
Reader_read_key_poll ==
    /\ entry = "reader"
    /\ rkPc = "poll"
    /\ rkPolls' = rkPolls + 1
    /\ \/ /\ avail # <<>>
          /\ rkPc' = "read"
          /\ UNCHANGED <<timeouts, rkFailed, rkResult>>
       \/ /\ avail = <<>>
          /\ timeouts < MaxTimeouts
          /\ timeouts' = timeouts + 1
          /\ UNCHANGED <<rkPc, rkFailed, rkResult>>
       \/ /\ rkFailed' = TRUE
          /\ rkResult' = "Err"
          /\ rkPc' = "returned"
          /\ UNCHANGED timeouts
    /\ UNCHANGED <<entry, rawSupported, termMode, pending, avail, rawOn, rawOff>>
    /\ UNCHANGED <<rkReads, rkCalls, rkKeys>>
    /\ UNCHANGED <<edVars, outVars, mainVars>>

\* A read that returns whatever event it read, key or not.
Reader_read_key_read_any ==
    /\ entry = "reader"
    /\ rkPc = "read"
    /\ rkReads' = rkReads + 1
    /\ \/ /\ avail # <<>>
          /\ avail' = Tail(avail)
          /\ rkKeys' = Append(rkKeys, Head(avail))
          /\ rkResult' = "Ok"
          /\ rkPc' = "returned"
          /\ UNCHANGED rkFailed
       \/ /\ rkFailed' = TRUE
          /\ rkResult' = "Err"
          /\ rkPc' = "returned"
          /\ UNCHANGED <<avail, rkKeys>>
    /\ UNCHANGED <<entry, rawSupported, termMode, pending, timeouts, rawOn, rawOff>>
    /\ UNCHANGED <<rkPolls, rkCalls>>
    /\ UNCHANGED <<edVars, outVars, mainVars>>

\* Reader::read_key, lines 11-13: if let Event::Key(event) = event::read()?:
\* a key is returned as Ok(event), another event is dropped and the loop
\* polls again, an I/O error is returned.
Reader_read_key_read ==
    /\ entry = "reader"
    /\ rkPc = "read"
    /\ rkReads' = rkReads + 1
    /\ \/ /\ avail # <<>>
          /\ avail' = Tail(avail)
          /\ IF Head(avail).type = "Key"
             THEN /\ rkKeys' = Append(rkKeys, Head(avail))
                  /\ rkResult' = "Ok"
                  /\ rkPc' = "returned"
             ELSE /\ rkKeys' = rkKeys
                  /\ rkResult' = rkResult
                  /\ rkPc' = "poll"
          /\ UNCHANGED rkFailed
       \/ /\ rkFailed' = TRUE
          /\ rkResult' = "Err"
          /\ rkPc' = "returned"
          /\ UNCHANGED <<avail, rkKeys>>
    /\ UNCHANGED <<entry, rawSupported, termMode, pending, timeouts, rawOn, rawOff>>
    /\ UNCHANGED <<rkPolls, rkCalls>>
    /\ UNCHANGED <<edVars, outVars, mainVars>>

ReaderNext ==
    \/ Reader_read_key_call
    \/ Reader_read_key_poll
    \/ Reader_read_key_read

\* ---------------------------------------------------------------- Output
\* The execute! calls of one refresh_screen, in order: clear_screen (Clear,
\* MoveTo), then draw_rows, which is clear_screen again.
OutSteps == <<"clear1", "move1", "clear2", "move2">>

OutAfter(step) ==
    CASE step = "clear1" -> "move1"
      [] step = "move1" -> "clear2"
      [] step = "clear2" -> "move2"
      [] step = "move2" -> "returned"

\* A caller calls Output::refresh_screen (again).
Output_refresh_screen_call ==
    /\ entry = "output"
    /\ outPc \in {"idle", "returned"}
    /\ outCalls < MaxCalls
    /\ outCalls' = outCalls + 1
    /\ outPc' = OutSteps[1]
    /\ outResult' = "None"
    /\ outWrites' = 0
    /\ UNCHANGED <<envVars, edVars, rkVars, mainVars>>

\* One execute!(stdout(), ...) of clear_screen: the command is written and
\* stdout flushed, or the I/O error is returned (by ? or as the last value).
Output_execute ==
    /\ entry = "output"
    /\ outPc \in {OutSteps[i] : i \in 1..Len(OutSteps)}
    /\ \/ /\ outWrites' = outWrites + 1
          /\ outPc' = OutAfter(outPc)
          /\ outResult' = IF OutAfter(outPc) = "returned" THEN "Ok" ELSE outResult
       \/ /\ outPc' = "returned"
          /\ outResult' = "Err"
          /\ UNCHANGED outWrites
    /\ UNCHANGED outCalls
    /\ UNCHANGED <<envVars, edVars, rkVars, mainVars>>

OutputNext ==
    \/ Output_refresh_screen_call
    \/ Output_execute

\* ------------------------------------------------------------------ main
\* Exit status of a process whose main thread panicked.
PanicExitCode == 101

\* main, lines 7-11: without a file argument main does nothing and returns;
\* with one it enables raw mode (expect panics on Err) and prints the name.
main_start ==
    /\ entry = "main"
    /\ mPc = "start"
    /\ IF args > 1
       THEN LET r == terminal_enable_raw_mode(termMode, rawSupported) IN
            /\ termMode' = r.mode
            /\ rawOn' = rawOn + Count(termMode, r.mode)
            /\ IF r.res = "Ok"
               THEN /\ mPc' = "read"
                    /\ printed' = printed + 1
                    /\ exitCode' = exitCode
               ELSE /\ mPc' = "exited"
                    /\ printed' = printed
                    /\ exitCode' = PanicExitCode
       ELSE /\ mPc' = "exited"
            /\ exitCode' = 0
            /\ UNCHANGED <<termMode, rawOn, printed>>
    /\ UNCHANGED <<entry, rawSupported, pending, avail, timeouts, rawOff>>
    /\ UNCHANGED <<args, stdin>>
    /\ UNCHANGED <<edVars, rkVars, outVars>>

\* main, lines 14-17: read one byte; a read error panics (expect), end of
\* input or the byte 'q' ends the loop and main returns, any other byte is
\* printed and the loop reads again.
main_read ==
    /\ entry = "main"
    /\ mPc = "read"
    /\ \/ /\ stdin # <<>>
          /\ stdin' = Tail(stdin)
          /\ IF Head(stdin) = "q"
             THEN /\ mPc' = "exited"
                  /\ exitCode' = 0
                  /\ printed' = printed
             ELSE /\ mPc' = "read"
                  /\ exitCode' = exitCode
                  /\ printed' = printed + 1
       \/ /\ stdin = <<>>
          /\ mPc' = "exited"
          /\ exitCode' = 0
          /\ UNCHANGED <<stdin, printed>>
       \/ /\ mPc' = "exited"
          /\ exitCode' = PanicExitCode
          /\ UNCHANGED <<stdin, printed>>
    /\ UNCHANGED args
    /\ UNCHANGED <<envVars, edVars, rkVars, outVars>>

MainNext ==
    \/ main_start
    \/ main_read

Next ==
    \/ Arrive
    \/ EditorNext
    \/ ReaderNext
    \/ OutputNext
    \/ MainNext

Spec == Init /\ [][Next]_vars

\* ------------------------------------------------ a single Editor, fair
\* A step of the loop of run() or of its closing lines that is not an I/O
\* failure: what the thread does next whenever it is scheduled.
Editor_run_progress(e) ==
    /\ \/ Editor_run_poll(e)
       \/ Editor_run_read(e)
       \/ Editor_run_match(e)
       \/ Editor_run_disable(e)
    /\ failed'[e] = failed[e]

\* A process that builds one Editor.
LiveInit == Init /\ entry = "editor"

LiveNext ==
    \/ Arrive
    \/ Editor_new(1)
    \/ Editor_run_enable(1)
    \/ Editor_run_poll(1)
    \/ Editor_run_read(1)
    \/ Editor_run_match(1)
    \/ Editor_run_disable(1)
    \/ Editor_drop(1)

\* The thread inside run() keeps being scheduled, and the user's pending
\* input does arrive.
LiveSpec ==
    /\ LiveInit
    /\ [][LiveNext]_vars
    /\ WF_vars(Arrive)
    /\ WF_vars(Editor_run_progress(1))

\* ================================================================ claims
\* e is the only Editor the process has built so far.
Alone(e) == \A f \in Editors \ {e} : pc[f] = "unborn"

\* run() has been called on e and has ended (returned, or a panic is
\* unwinding out of it) and e is still alive.
RunEnded(e) == pc[e] \in {"returned", "unwinding"}

\* e is inside the loop of run().
InLoop(e) == pc[e] \in {"poll", "read", "match"}

C2_MainLeavesTerminalNormal ==
    (entry = "main" /\ mPc = "exited") => termMode = "Normal"

\* C3: when run() has returned Err to its caller (the only Editor of the
\* process), the terminal mode is Normal.
C3_ErrReturnedAfterTeardown ==
    \A e \in Editors :
        (Alone(e) /\ pc[e] = "returned" /\ result[e] = "Err") => termMode = "Normal"

\* C4: once an event::poll or event::read of Editor::run or of
\* Reader::read_key has failed, the operation has returned Err to its caller
\* and it performs no further poll or read.
C4_IoErrorLeavesLoop ==
    [][/\ \A e \in Editors :
            failed'[e] =>
               /\ pc'[e] \in {"returned", "dropped"}
               /\ result'[e] = "Err"
               /\ failed[e] => (polls'[e] = polls[e] /\ reads'[e] = reads[e])
       /\ rkFailed' =>
               /\ rkPc' = "returned"
               /\ rkResult' = "Err"
               /\ rkFailed => (rkPolls' = rkPolls /\ rkReads' = rkReads)]_vars

\* C4 witness: a run whose read failed in a later iteration, after a first
\* event had been read, and which has returned Err.
C4_Witness ==
    \E e \in Editors :
        /\ failed[e] /\ pc[e] = "returned" /\ result[e] = "Err"
        /\ reads[e] = 2 /\ polls[e] = 2

C6_EnableFailureIsErrResult ==
    \A e \in Editors :
        (~rawSupported /\ RunEnded(e)) =>
            /\ pc[e] = "returned"
            /\ result[e] = "Err"
            /\ polls[e] = 0 /\ reads[e] = 0
            /\ termMode = "Normal"

\* C7: an Editor inside its loop has raw mode active, whatever the other
\* Editor instance of the process does.
C7_RunningEditorKeepsRaw ==
    \A e \in Editors : InLoop(e) => termMode = "Raw"

C9_QuitKeyTerminates ==
    [][\A e \in Editors :
        /\ (pc[e] = "match" /\ IsQuitKey(cur[e]) /\ pc'[e] # pc[e]) =>
              /\ pc'[e] = "disable"
              /\ polls'[e] = polls[e] /\ reads'[e] = reads[e]
        /\ (pc[e] = "disable" /\ pc'[e] # pc[e]) =>
              /\ pc'[e] = "returned" /\ result'[e] = "Ok"
              /\ polls'[e] = polls[e] /\ reads'[e] = reads[e]
        /\ pc[e] \in {"returned", "dropped"} =>
              (polls'[e] = polls[e] /\ reads'[e] = reads[e])]_vars

\* C9 witness: run returned Ok after reading a single event, the quit key.
C9_Witness ==
    \E e \in Editors :
        /\ pc[e] = "returned" /\ result[e] = "Ok"
        /\ IsQuitKey(cur[e]) /\ reads[e] = 1

\* C10: a key that was read and dispatched is followed by a render (a call
\* of Output::refresh_screen) before the loop polls again.
C10_RenderBeforeNextPoll ==
    [][\A e \in Editors :
        (pc[e] = "match" /\ pc'[e] = "poll") => outCalls' > outCalls]_vars

\* C11: a poll of Reader::read_key that times out with no input ends the
\* call: read_key returns to its caller without polling again, so one call
\* makes at most one poll that finds nothing.
C11_TimeoutReturnsToCaller ==
    [][(entry = "reader" /\ timeouts' > timeouts) =>
            (rkPc' = "returned" /\ rkPolls' <= 1)]_vars

\* C12: when the match has handled a key that is not the quit key, the
\* editor is still in its loop and its status message is set (non-empty).
C12_UnknownKeySetsStatusMessage ==
    [][\A e \in Editors :
        (pc[e] = "match" /\ pc'[e] # pc[e]
            /\ ~(cur[e].code = "q" /\ cur[e].modifiers = "NONE")) =>
                (pc'[e] = "poll" /\ statusmsg' # "")]_vars

\* C13: one call of Output::refresh_screen writes to stdout once: never
\* more than one write during the call, and exactly one when it returns Ok.
C13_OneWritePerRefresh ==
    /\ outWrites <= 1
    /\ (outPc = "returned" /\ outResult = "Ok") => outWrites = 1

\* C14: a main started without a file argument ends with a non-zero exit
\* status after emitting a message.
C14_MissingArgumentIsError ==
    (entry = "main" /\ args = 1 /\ mPc = "exited") =>
        (exitCode # 0 /\ printed > 0)

\* C15: the loop of run is left only by an I/O error (run returns Err) or
\* by the match of an unmodified 'q' key; a poll timeout, an event that is
\* not a key and any other key (a 'q' with a modifier included) leave the
\* Editor in its loop, and with a single Editor the terminal Raw and no
\* disable performed; run returns Ok only after such a 'q' key was read.
C15_OnlyQuitKeyLeavesLoop ==
    [][\A e \in Editors :
        /\ (InLoop(e) /\ ~InLoop(e)') =>
              \/ failed'[e] /\ pc'[e] = "returned" /\ result'[e] = "Err"
              \/ /\ pc[e] = "match" /\ pc'[e] = "disable"
                 /\ cur[e].type = "Key" /\ cur[e].code = "q"
                 /\ cur[e].modifiers = "NONE"
        /\ (Alone(e) /\ InLoop(e) /\ InLoop(e)') =>
              /\ termMode = "Raw" /\ termMode' = "Raw"
              /\ result'[e] = "None"
              /\ disableCalls'[e] = disableCalls[e]
        /\ result'[e] = "Ok" =>
              /\ cur'[e].type = "Key" /\ cur'[e].code = "q"
              /\ cur'[e].modifiers = "NONE"]_vars

\* C15 witness: the only Editor has read two events, the last a 'q' with
\* Control, has sat through a poll timeout, and is still polling in Raw mode.
C15_Witness ==
    \E e \in Editors :
        /\ Alone(e) /\ pc[e] = "poll" /\ result[e] = "None"
        /\ reads[e] = 2 /\ timeouts > 0
        /\ cur[e].code = "q" /\ cur[e].modifiers = "CONTROL"
        /\ termMode = "Raw"

\* ev is an unmodified 'q' key event.
IsPlainQ(ev) == ev.type = "Key" /\ ev.code = "q" /\ ev.modifiers = "NONE"

\* The Editor is in its loop and an unmodified 'q' key is, or will be, in
\* its input (waiting, still to arrive, or just read).
QuitAhead(e) ==
    /\ InLoop(e)
    /\ \/ pc[e] = "match" /\ IsPlainQ(cur[e])
       \/ \E i \in 1..Len(avail \o pending) : IsPlainQ((avail \o pending)[i])

\* C16: under a fair scheduler, a run of the only Editor that has an
\* unmodified 'q' key in its input ends, short of an I/O error, with Ok and
\* the terminal mode Normal, whatever events are queued ahead of the key.
C16_QuitEventuallyTerminates ==
    QuitAhead(1) ~>
        \/ failed[1]
        \/ /\ pc[1] \in {"returned", "dropped"}
           /\ result[1] = "Ok"
           /\ termMode = "Normal"

\* C16 witness: run returned Ok after two reads (an event was queued ahead
\* of the quit key) and a poll timeout, without an I/O error.
C16_Witness ==
    /\ pc[1] = "returned" /\ result[1] = "Ok" /\ ~failed[1]
    /\ reads[1] = 2 /\ timeouts > 0
    /\ termMode = "Normal"

C18_RawAtEveryPollAndRead ==
    [][\A e \in Editors :
        /\ (Alone(e) /\ (polls'[e] # polls[e] \/ reads'[e] # reads[e])) =>
              (termMode = "Raw" /\ termMode' = "Raw")
        /\ (Alone(e)' /\ InLoop(e)') =>
              /\ termMode' = "Raw"
              /\ rawOn' = 1 /\ rawOff' = 0
              /\ disableCalls'[e] = 0]_vars

\* C18 witness: the only Editor, after two polls and a read, is at its
\* second read with the terminal in Raw mode.
C18_Witness ==
    \E e \in Editors :
        /\ Alone(e) /\ pc[e] = "read"
        /\ polls[e] = 2 /\ reads[e] = 1
        /\ termMode = "Raw" /\ disableCalls[e] = 0

\* The key events of a sequence of events, in order.
KeysOf(s) == SelectSeq(s, LAMBDA ev : ev.type = "Key")

\* The input still to be read: what waits in the queue, then what is to come.
Unread == avail \o pending

\* C19: read_key returns Ok exactly when it hands over one more event, that
\* event is a key event, and it is the first key event of the unread input:
\* the keys returned so far followed by the keys still unread are always the
\* keys of the input, in input order (no key skipped, duplicated or
\* reordered over successive calls); events that are not keys and poll
\* timeouts only ever keep the call going.
C19_ReturnsFirstKeyInOrder ==
    [][entry = "reader" =>
       /\ \A i \in 1..Len(rkKeys') : rkKeys'[i].type = "Key"
       /\ KeysOf(rkKeys' \o Unread') = KeysOf(rkKeys \o Unread)
       /\ (rkPc # "returned" /\ rkPc' = "returned" /\ rkResult' = "Ok") =>
             /\ Len(rkKeys') = Len(rkKeys) + 1
             /\ KeysOf(Unread) # <<>>
             /\ rkKeys'[Len(rkKeys')] = Head(KeysOf(Unread))
             /\ Unread' = Tail(Unread)
       /\ rkKeys' # rkKeys => (rkPc' = "returned" /\ rkResult' = "Ok")
       /\ (rkPc = "poll" /\ timeouts' # timeouts) => (rkPc' = "poll" /\ Unread' = Unread)
       /\ (rkPc = "read" /\ rkPc' = "poll") =>
             (Head(Unread).type # "Key" /\ Unread' = Tail(Unread))]_vars

\* C19 witness: a call of read_key has returned Ok with a key after three
\* polls and two reads: a timeout was absorbed and an event that is not a
\* key, ahead of the key, was read and dropped.
C19_Witness ==
    /\ rkPc = "returned" /\ rkResult = "Ok"
    /\ Len(rkKeys) = 1
    /\ rkPolls = 3 /\ rkReads = 2 /\ timeouts = 1
====
